---- MODULE Spec2Model ----
(***************************************************************************)
(* A model of plot_results.py, the visualization script of the Monte Carlo *)
(* pi estimator: the three presentation functions plot_convergence,        *)
(* plot_error_analysis and create_summary_report, and the driver main.     *)
(*                                                                         *)
(* One run is one invocation: either the script (entry = "main") or one of *)
(* the three functions called directly as a library function.  The file    *)
(* system is the one input file named by csv_file (missing, zero bytes, or *)
(* a header and data rows).  What a run leaves behind is what it printed   *)
(* (stdout), the plot files it wrote (saved), the figures it displayed     *)
(* (shown), the exception that escaped (raised) and the process status.    *)
(*                                                                         *)
(* Numbers.  Sample counts are powers of 4 and errors are fractions        *)
(* num/den of powers of 2, so that every logarithm the code takes is an    *)
(* exact integer in units of ln 2 and the least-squares slope is an exact  *)
(* fraction.  Floating-point rounding is not modelled.  The Pi_Estimate    *)
(* column decides no branch of the code and is left out of a row.          *)
(***************************************************************************)
EXTENDS Integers, Sequences, FiniteSets, TLC

VARIABLES
    entry,      \* the callable this run invokes
    args,       \* its arguments: csv_file, output, type, no_display
    disk,       \* what the file system holds at args.csv_file
    pc,         \* "start", "dispatch", "trailer", "exited" (main); "returned" (direct call)
    stdout,     \* the lines printed so far
    saved,      \* the paths plt.savefig has written
    shown,      \* how many times plt.show has displayed a figure
    raised,     \* the exception that propagated out of the function called, or NoExc
    exitCode,   \* the process status, meaningful once pc = "exited"
    calls,      \* the presentation functions main has called, in order
    figure,     \* the panels drawn on the current figure and the histogram's bins
    logged,     \* the Error values passed to np.log
    divided,    \* the Error values used in the divisor of the efficiency formula
    fit         \* the convergence rate computed, if any

vars == <<entry, args, disk, pc, stdout, saved, shown, raised, exitCode, calls,
          figure, logged, divided, fit>>

----------------------------------------------------------------------------
(* Bounds of the model. *)

\* Sample counts are 4^0 .. 4^MaxExp; errors are 0, 2 and 1/2^0 .. 1/2^MaxExp.
MaxExp == 2

\* The longest series of the histogram specification.
MaxRowsHist == 105

----------------------------------------------------------------------------
(* Values. *)

None == "<None>"
NoExc == "none"
CsvPath == "results.csv"
PlotPath == "plot.png"

RECURSIVE Pow(_, _)
Pow(b, k) == IF k = 0 THEN 1 ELSE b * Pow(b, k - 1)

SampleCounts == { Pow(4, k) : k \in 0..MaxExp }

Frac(n, d) == [num |-> n, den |-> d]

Errors == { Frac(0, 1), Frac(2, 1) } \cup { Frac(1, Pow(2, k)) : k \in 0..MaxExp }

Rows == [Sample_Count : SampleCounts, Error : Errors]

\* A series is ordered by increasing sample count.
Series ==
    { s \in UNION { [1..k -> Rows] : k \in 0..(MaxExp + 1) } :
        \A i \in 1..Len(s) : \A j \in 1..Len(s) :
            i < j => s[i].Sample_Count < s[j].Sample_Count }

\* A long series, of which only the row count matters.
LongSeries(n) == [i \in 1..n |-> [Sample_Count |-> i, Error |-> Frac(1, 1)]]

Missing == [kind |-> "missing", rows |-> <<>>]
ZeroBytes == [kind |-> "empty", rows |-> <<>>]
DataFile(rows) == [kind |-> "data", rows |-> rows]

\* Python's truth value of an optional string.
Truthy(s) == s \notin {None, ""}

NoFigure == [panels |-> {}, bins |-> 0]
NoFit == [kind |-> "none", num |-> 0, den |-> 1]
NaN == [kind |-> "nan", num |-> 0, den |-> 1]

----------------------------------------------------------------------------
(* pd.read_csv, and the arithmetic of numpy the code relies on. *)

\* pd.read_csv(csv_file): the exception it raises, or the DataFrame's rows.
read_csv(csv_file) ==
    CASE disk.kind = "missing" -> [exc |-> "FileNotFoundError", df |-> <<>>]
      [] disk.kind = "empty"   -> [exc |-> "EmptyDataError", df |-> <<>>]
      [] OTHER                 -> [exc |-> NoExc, df |-> disk.rows]

\* Path(csv_file).exists()
path_exists(csv_file) == disk.kind # "missing"

\* An extended real: a finite integer (in units of ln 2) or minus infinity.
Fin(v) == [fin |-> TRUE, v |-> v]
NegInf == [fin |-> FALSE, v |-> 0]

\* The base-2 logarithm of a power of two.
RECURSIVE Log2(_)
Log2(n) == IF n <= 1 THEN 0 ELSE 1 + Log2(n \div 2)

\* np.log of a sample count, in units of ln 2.
LogCount(n) == Log2(n)

\* np.log of an error, in units of ln 2; the logarithm of zero is -inf.
LogError(e) == IF e.num = 0 THEN NegInf ELSE Fin(Log2(e.num) - Log2(e.den))

RECURSIVE Sum(_, _)
Sum(f, k) == IF k = 0 THEN 0 ELSE f[k] + Sum(f, k - 1)

RECURSIVE Gcd(_, _)
Gcd(a, b) == IF b = 0 THEN a ELSE Gcd(b, a % b)

Abs(a) == IF a < 0 THEN -a ELSE a

\* The fraction n/d (d # 0) in lowest terms with a positive denominator.
Reduce(n, d) ==
    LET g == Gcd(Abs(n), Abs(d))
        s == IF d < 0 THEN -1 ELSE 1
    IN  [kind |-> "rate", num |-> (s * n) \div g, den |-> (s * d) \div g]

\* np.polyfit(xs, ys, 1)[0]: the slope of the least-squares line.  A
\* non-finite ordinate makes every coefficient nan; a single abscissa
\* leaves the slope undetermined.
polyfit_slope(xs, ys) ==
    LET n   == Len(xs)
        yv  == [i \in 1..n |-> ys[i].v]
        Sx  == Sum(xs, n)
        Sy  == Sum(yv, n)
        Sxx == Sum([i \in 1..n |-> xs[i] * xs[i]], n)
        Sxy == Sum([i \in 1..n |-> xs[i] * yv[i]], n)
        D   == n * Sxx - Sx * Sx
        N   == n * Sxy - Sx * Sy
    IN  IF \E i \in 1..n : ~ys[i].fin THEN NaN
        ELSE IF D = 0 THEN [kind |-> "rankdef", num |-> 0, den |-> 1]
        ELSE Reduce(N, D)

\* The slope taken as the rate without the negation.
NegateForgotten(c) == c

\* convergence_rate = -coeffs[0]
Negate(c) == IF c.kind = "rate" THEN [c EXCEPT !.num = -c.num] ELSE c

\* The log-log fit of both functions: the logarithm of every Sample_Count
\* and of every Error, a first-degree fit, the negated slope.
convergence_rate(df) ==
    LET log_samples == [i \in 1..Len(df) |-> LogCount(df[i].Sample_Count)]
        log_errors  == [i \in 1..Len(df) |-> LogError(df[i].Error)]
    IN  Negate(polyfit_slope(log_samples, log_errors))

\* The Error values whose logarithm the fit takes: the whole column.
log_arguments(df) == { df[i].Error : i \in 1..Len(df) }

\* The Error values squared in the divisor of 1.0 / (Sample_Count * Error**2).
efficiency_divisors(df) == { df[i].Error : i \in 1..Len(df) }

\* f"{num/den:.3f}" as a number of thousandths, rounded half to even.
FormatF3(num, den) ==
    LET a == Abs(num) * 1000
        q == a \div den
        r == a % den
        m == IF 2 * r > den \/ (2 * r = den /\ q % 2 = 1) THEN q + 1 ELSE q
    IN  IF num < 0 THEN -m ELSE m

\* A printed line: the format string, the name it is filled with, and the
\* number it shows (in thousandths) when it shows one.
Line(text, arg) == [text |-> text, arg |-> arg, val |-> 0]

\* print(f"  Rate Ratio: {convergence_rate/0.5:.3f}"): the ratio in
\* thousandths, or the text nan.
rate_ratio_line(c) ==
    IF c.kind = "rate"
    THEN [text |-> "  Rate Ratio: {:.3f}", arg |-> "", val |-> FormatF3(2 * c.num, c.den)]
    ELSE [text |-> "  Rate Ratio: {:.3f}", arg |-> "nan", val |-> 0]

----------------------------------------------------------------------------
(* The presentation functions.  Each is an operator from its arguments to  *)
(* what the call does: the lines it prints, the paths it saves, whether it *)
(* shows a figure, the exception that escapes it, the figure it drew, the  *)
(* values it fed to np.log and to the efficiency divisor, and the fit.     *)

Effect(out, sv, sh, exc, fig, lg, dv, ft) ==
    [stdout |-> out, saved |-> sv, shown |-> sh, raised |-> exc,
     figure |-> fig, logged |-> lg, divided |-> dv, fit |-> ft]

\* A function that printed `out` and returned before creating a figure.
EarlyReturn(out) == Effect(out, {}, 0, NoExc, NoFigure, {}, {}, NoFit)

\* An exception that left the function, after it printed `out` and drew `fig`.
Raise(exc, out, fig, lg, ft) == Effect(out, {}, 0, exc, fig, lg, {}, ft)

NotFoundText == "Error: File '{csv_file}' not found."
EmptyText == "Error: File '{csv_file}' is empty."

\* The message each except clause prints.
load_error_line(exc, csv_file) ==
    IF exc = "FileNotFoundError" THEN Line(NotFoundText, csv_file)
    ELSE Line(EmptyText, csv_file)

\* A function whose load has no except clause for a missing file.
catches_nothing == {}

\* The except clauses around pd.read_csv in each function.
plot_convergence_catches == {"FileNotFoundError", "EmptyDataError"}
plot_error_analysis_catches == {"FileNotFoundError"}
create_summary_report_catches == {"FileNotFoundError"}

HistMinRows == 10
HistMaxBins == 20
HistRowsPerBin == 5

Min(a, b) == IF a < b THEN a ELSE b

\* if len(df) > 10
hist_drawn(n) == n > HistMinRows

\* The bin count without its cap.
hist_bins_uncapped(n) == n \div HistRowsPerBin

\* bins=min(20, len(df)//5)
hist_bins(n) == Min(HistMaxBins, n \div HistRowsPerBin)

\* if output_file: plt.savefig(output_file); print(...)  else: plt.show()
save_or_show(output_file, text, fig, lg, dv, ft) ==
    IF Truthy(output_file)
    THEN Effect(<<Line(text, output_file)>>, {output_file}, 0, NoExc, fig, lg, dv, ft)
    ELSE Effect(<<>>, {}, 1, NoExc, fig, lg, dv, ft)

plot_convergence(csv_file, output_file) ==
    LET r == read_csv(csv_file)
        n == Len(r.df)
        fig == IF hist_drawn(n)
               THEN [panels |-> {"convergence", "error", "relative_error", "histogram"},
                     bins |-> hist_bins(n)]
               ELSE [panels |-> {"convergence", "error", "relative_error",
                                 "Not enough data points for histogram"},
                     bins |-> 0]
    IN  IF r.exc \in plot_convergence_catches
        THEN EarlyReturn(<<load_error_line(r.exc, csv_file)>>)
        ELSE IF r.exc # NoExc
        THEN Raise(r.exc, <<>>, NoFigure, {}, NoFit)
        ELSE save_or_show(output_file, "Plot saved to {output_file}", fig, {}, {}, NoFit)

\* if len(df) > 1: the guard of the fit in both functions
fit_performed(n) == n > 1

plot_error_analysis(csv_file, output_file) ==
    LET r == read_csv(csv_file)
        df == r.df
        n == Len(df)
        fitted == fit_performed(n)
        lg == IF fitted THEN log_arguments(df) ELSE {}
        ft == IF fitted THEN convergence_rate(df) ELSE NoFit
        upto4 == {"error_convergence", "relative_error", "scatter"}
                    \cup (IF fitted THEN {"convergence_rate"} ELSE {})
        all == upto4 \cup {"statistical_summary", "efficiency"}
    IN  IF r.exc \in plot_error_analysis_catches
        THEN EarlyReturn(<<load_error_line(r.exc, csv_file)>>)
        ELSE IF r.exc # NoExc
        THEN Raise(r.exc, <<>>, NoFigure, {}, NoFit)
        ELSE IF n = 0
        \* df['Pi_Estimate'].iloc[-1] of an empty column
        THEN Raise("IndexError", <<>>, [panels |-> upto4, bins |-> 0], lg, ft)
        ELSE save_or_show(output_file, "Error analysis plot saved to {output_file}",
                          [panels |-> all, bins |-> 0], lg, efficiency_divisors(df), ft)

create_summary_report(csv_file) ==
    LET r == read_csv(csv_file)
        df == r.df
        n == Len(df)
        fitted == fit_performed(n)
        ft == IF fitted THEN convergence_rate(df) ELSE NoFit
        banner == <<Line("MONTE CARLO pi ESTIMATION SUMMARY REPORT", "")>>
        body == <<Line("File: {csv_file}", csv_file),
                  Line("FINAL RESULTS:", ""),
                  Line("ERROR STATISTICS:", ""),
                  Line("ESTIMATE STATISTICS:", "")>>
        analysis == IF fitted
                    THEN <<Line("CONVERGENCE ANALYSIS:", ""), rate_ratio_line(ft)>>
                    ELSE <<>>
        closing == <<Line("closing separator", "")>>
    IN  IF r.exc \in create_summary_report_catches
        THEN EarlyReturn(<<load_error_line(r.exc, csv_file)>>)
        ELSE IF r.exc # NoExc
        THEN Raise(r.exc, <<>>, NoFigure, {}, NoFit)
        ELSE IF n = 0
        \* df['Pi_Estimate'].iloc[-1] of an empty column, after the banner
        THEN Raise("IndexError", banner, NoFigure, {}, NoFit)
        ELSE Effect(banner \o body \o analysis \o closing, {}, 0, NoExc, NoFigure,
                    IF fitted THEN log_arguments(df) ELSE {}, {}, ft)

----------------------------------------------------------------------------
(* The run. *)

Outputs == {None, "", PlotPath}
Types == {"convergence", "error", "summary"}

\* The command lines of the script: csv_file, -o, -t (default convergence), --no-display.
MainArgs ==
    [csv_file : {CsvPath}, output : Outputs, type : Types, no_display : BOOLEAN]

\* The arguments of a direct call; create_summary_report takes no output_file.
DirectArgs(f) ==
    [csv_file : {CsvPath},
     output : IF f = "create_summary_report" THEN {None} ELSE Outputs,
     type : {f}, no_display : {FALSE}]

Functions == {"plot_convergence", "plot_error_analysis", "create_summary_report"}

InitRun ==
    /\ pc = "start"
    /\ stdout = <<>>
    /\ saved = {}
    /\ shown = 0
    /\ raised = NoExc
    /\ exitCode = 0
    /\ calls = <<>>
    /\ figure = NoFigure
    /\ logged = {}
    /\ divided = {}
    /\ fit = NoFit

InitArgs ==
    \/ entry = "main" /\ args \in MainArgs
    \/ entry \in Functions /\ args \in DirectArgs(entry)

Init ==
    /\ InitArgs
    /\ disk \in {Missing, ZeroBytes} \cup { DataFile(s) : s \in Series }
    /\ InitRun

\* The effect of a call on the run's state.
Apply(e) ==
    /\ stdout' = stdout \o e.stdout
    /\ saved' = saved \cup e.saved
    /\ shown' = shown + e.shown
    /\ raised' = e.raised
    /\ figure' = e.figure
    /\ logged' = e.logged
    /\ divided' = e.divided
    /\ fit' = e.fit

\* A presentation function called directly.
CallPlotConvergence ==
    /\ entry = "plot_convergence" /\ pc = "start"
    /\ Apply(plot_convergence(args.csv_file, args.output))
    /\ pc' = "returned"
    /\ UNCHANGED <<entry, args, disk, exitCode, calls>>

CallPlotErrorAnalysis ==
    /\ entry = "plot_error_analysis" /\ pc = "start"
    /\ Apply(plot_error_analysis(args.csv_file, args.output))
    /\ pc' = "returned"
    /\ UNCHANGED <<entry, args, disk, exitCode, calls>>

CallCreateSummaryReport ==
    /\ entry = "create_summary_report" /\ pc = "start"
    /\ Apply(create_summary_report(args.csv_file))
    /\ pc' = "returned"
    /\ UNCHANGED <<entry, args, disk, exitCode, calls>>

\* main, up to the dispatch: the existence check and sys.exit(1).
MainCheck ==
    /\ entry = "main" /\ pc = "start"
    /\ IF ~path_exists(args.csv_file)
       THEN /\ stdout' = Append(stdout, Line(NotFoundText, args.csv_file))
            /\ exitCode' = 1
            /\ pc' = "exited"
       ELSE /\ pc' = "dispatch"
            /\ UNCHANGED <<stdout, exitCode>>
    /\ UNCHANGED <<entry, args, disk, saved, shown, raised, calls, figure, logged,
                   divided, fit>>

\* An exception that leaves main ends the interpreter with status 1.
AfterCall(e) ==
    IF e.raised # NoExc
    THEN pc' = "exited" /\ exitCode' = 1
    ELSE pc' = "trailer" /\ UNCHANGED exitCode

\* main's dispatch on args.type.
MainConvergence ==
    /\ entry = "main" /\ pc = "dispatch" /\ args.type = "convergence"
    /\ LET e == plot_convergence(args.csv_file, args.output)
       IN  Apply(e) /\ AfterCall(e)
    /\ calls' = Append(calls, "plot_convergence")
    /\ UNCHANGED <<entry, args, disk>>

MainError ==
    /\ entry = "main" /\ pc = "dispatch" /\ args.type = "error"
    /\ LET e == plot_error_analysis(args.csv_file, args.output)
       IN  Apply(e) /\ AfterCall(e)
    /\ calls' = Append(calls, "plot_error_analysis")
    /\ UNCHANGED <<entry, args, disk>>

MainSummary ==
    /\ entry = "main" /\ pc = "dispatch" /\ args.type = "summary"
    /\ LET e == create_summary_report(args.csv_file)
       IN  Apply(e) /\ AfterCall(e)
    /\ calls' = Append(calls, "create_summary_report")
    /\ UNCHANGED <<entry, args, disk>>

TrailerText == "Plot saved to: {args.output}"

\* if args.output and not args.no_display
trailer_printed(a) == Truthy(a.output) /\ ~a.no_display

\* main's trailing message, and the normal end of the process.
MainTrailer ==
    /\ entry = "main" /\ pc = "trailer"
    /\ stdout' = IF trailer_printed(args)
                 THEN stdout \o <<Line(TrailerText, args.output),
                                   Line("You can also view it with: display", args.output)>>
                 ELSE stdout
    /\ exitCode' = 0
    /\ pc' = "exited"
    /\ UNCHANGED <<entry, args, disk, saved, shown, raised, calls, figure, logged,
                   divided, fit>>

Next ==
    \/ CallPlotConvergence
    \/ CallPlotErrorAnalysis
    \/ CallCreateSummaryReport
    \/ MainCheck
    \/ MainConvergence
    \/ MainError
    \/ MainSummary
    \/ MainTrailer

Spec == Init /\ [][Next]_vars

\* The histogram specification: plot_convergence, by the script or directly,
\* on series of every length up to MaxRowsHist.
InitHist ==
    /\ \/ entry = "main" /\ args \in { a \in MainArgs : a.type = "convergence" }
       \/ entry = "plot_convergence" /\ args \in DirectArgs(entry)
    /\ disk \in {Missing, ZeroBytes} \cup { DataFile(LongSeries(n)) : n \in 0..MaxRowsHist }
    /\ InitRun

NextHist ==
    \/ CallPlotConvergence
    \/ MainCheck
    \/ MainConvergence
    \/ MainTrailer

SpecHist == InitHist /\ [][NextHist]_vars

----------------------------------------------------------------------------
(* The claims. *)

Printed(l) == \E i \in 1..Len(stdout) : stdout[i] = l
PrintedText(t) == \E i \in 1..Len(stdout) : stdout[i].text = t

\* The function f has been called and has ended (returned or raised), and
\* nothing has run since.
Ended(f) ==
    \/ entry = f /\ pc = "returned"
    \/ entry = "main" /\ calls = <<f>> /\ (pc = "trailer" \/ raised # NoExc)

Loaded == disk.kind = "data"

Zero == Frac(0, 1)

Selected(type) ==
    CASE type = "convergence" -> "plot_convergence"
      [] type = "error"       -> "plot_error_analysis"
      [] OTHER                -> "create_summary_report"

\* C1: each presentation function, called with a path that does not exist,
\* prints the 'not found' message naming that path and nothing else, returns
\* normally, and creates, saves and shows no figure.
C1_MissingFileReported ==
    \A f \in Functions :
        (entry = f /\ pc = "returned" /\ disk.kind = "missing") =>
            /\ stdout = <<Line(NotFoundText, args.csv_file)>>
            /\ raised = NoExc
            /\ figure = NoFigure
            /\ saved = {}
            /\ shown = 0

C1_Witness ==
    /\ entry = "create_summary_report" /\ pc = "returned" /\ disk.kind = "missing"
    /\ Printed(Line(NotFoundText, CsvPath))

\* C2: when main has exited: if the input path does not exist it printed the
\* diagnostic, called no presentation function and exited non-zero; in every
\* other case it ran exactly the presentation function its mode selects and
\* exited with status zero.
C2_MainExit ==
    (entry = "main" /\ pc = "exited") =>
        IF disk.kind = "missing"
        THEN exitCode # 0 /\ calls = <<>> /\ Printed(Line(NotFoundText, args.csv_file))
        ELSE exitCode = 0 /\ calls = <<Selected(args.type)>>

\* C3: in every mode a zero-byte file is caught inside the function that
\* loads it: the 'empty' message naming the file is printed, no exception
\* leaves the function, no figure or report is produced, and the process
\* status is not escalated.
C3_EmptyFileCaught ==
    /\ \A f \in Functions :
        (Ended(f) /\ disk.kind = "empty") =>
            /\ stdout = <<Line(EmptyText, args.csv_file)>>
            /\ raised = NoExc
            /\ figure = NoFigure /\ saved = {} /\ shown = 0
    /\ (entry = "main" /\ pc = "exited" /\ disk.kind = "empty") => exitCode = 0

\* C4: with --no-display no invocation of main displays a figure.
C4_NoDisplayNeverShows ==
    (entry = "main" /\ args.no_display) => shown = 0

\* C5: a call of plot_convergence or plot_error_analysis that loaded its file
\* saved the figure to exactly the output path and did not show it when an
\* output path was given, and showed it and saved nothing when none was:
\* exactly one of save and show, never both and never neither.
C5_SaveXorShow ==
    \A f \in {"plot_convergence", "plot_error_analysis"} :
        (Ended(f) /\ Loaded) =>
            IF Truthy(args.output)
            THEN saved = {args.output} /\ shown = 0
            ELSE saved = {} /\ shown = 1

\* C6: on a loaded series of fewer than 2 rows (one row, or none)
\* plot_error_analysis and create_summary_report do not fail: the fit and
\* what depends on it are left out, and the rest of the output is produced.
C6_FewRowsDegrade ==
    /\ (Ended("plot_error_analysis") /\ Loaded /\ Len(disk.rows) < 2) =>
            /\ raised = NoExc
            /\ fit = NoFit /\ "convergence_rate" \notin figure.panels
            /\ {"statistical_summary", "efficiency"} \subseteq figure.panels
            /\ (saved # {} \/ shown = 1)
    /\ (Ended("create_summary_report") /\ Loaded /\ Len(disk.rows) < 2) =>
            /\ raised = NoExc
            /\ fit = NoFit /\ ~PrintedText("CONVERGENCE ANALYSIS:")
            /\ PrintedText("FINAL RESULTS:") /\ PrintedText("ERROR STATISTICS:")
            /\ PrintedText("ESTIMATE STATISTICS:") /\ PrintedText("closing separator")

\* C7: no Error value of exactly zero is passed to the logarithm that feeds
\* the fit, and none is used in the divisor of the efficiency formula.
C7_ZeroErrorGuarded ==
    Zero \notin logged /\ Zero \notin divided

\* error = c / sqrt(sample_count) for one constant c > 0: the product
\* sample_count * error^2 is the same positive number in every row.
InvSqrtLaw(rows) ==
    /\ Len(rows) >= 2
    /\ \A i \in 1..Len(rows) : rows[i].Error.num > 0
    /\ \A i \in 1..Len(rows) : \A j \in 1..Len(rows) :
        rows[i].Sample_Count * rows[i].Error.num * rows[i].Error.num
            * rows[j].Error.den * rows[j].Error.den
        = rows[j].Sample_Count * rows[j].Error.num * rows[j].Error.num
            * rows[i].Error.den * rows[i].Error.den

C9_HistogramBins ==
    (Ended("plot_convergence") /\ Loaded) =>
        LET n == Len(disk.rows)
        IN  /\ ("histogram" \in figure.panels) <=> (n > 10)
            /\ n > 10 =>
                /\ figure.bins = (IF n \div 5 < 20 THEN n \div 5 ELSE 20)
                /\ figure.bins >= 2 /\ figure.bins <= 20
            /\ ("Not enough data points for histogram" \in figure.panels) <=> (n <= 10)
            /\ raised = NoExc
            /\ (saved # {}) # (shown = 1)

C9_Witness ==
    /\ Ended("plot_convergence") /\ Loaded
    /\ Len(disk.rows) > 100 /\ figure.bins = 20 /\ "histogram" \in figure.panels

\* C10: main prints its trailing 'Plot saved to: <output>' message only when
\* a plot file was written to that path during the same invocation.
C10_TrailerOnlyAfterSave ==
    Printed(Line(TrailerText, args.output)) => args.output \in saved

====
